---- MODULE Spec2Model ----
(***************************************************************************)
(* Audio Translator and Voiceover Studio.                                  *)
(*                                                                         *)
(* The React component App (its seven useState cells, its three async      *)
(* handlers and the controls it renders), the service module               *)
(* geminiService.ts (the lazily constructed API client and the three       *)
(* request functions) and the WAV container encoder createWavBlob.         *)
(*                                                                         *)
(* JavaScript runs the handlers on one event loop: a handler runs without  *)
(* interruption up to its first await on a pending promise, and what       *)
(* follows the await runs later, as a step of its own, reading the values  *)
(* the handler captured when it was called (its closure) and the live      *)
(* state only through the functional updaters setX(prev => ...).           *)
(***************************************************************************)
EXTENDS Integers, Sequences, FiniteSets, Bags, TLC

VARIABLES
    audioFile,              \* useState<File | null>: 0 is null, f > 0 the f-th File object picked
    originalTranscription,  \* useState<string>: 0 is '', f > 0 the transcript of File f
    translations,           \* useState<Translation[]>
    selectedLanguage,       \* useState<string>: a code of LANGUAGES
    activeTab,              \* useState<string>
    appState,               \* useState<AppState>
    error,                  \* useState<string | null>
    ai,                     \* geminiService.ts: let ai: GoogleGenAI | undefined
    apiKey,                 \* process.env.API_KEY is set
    constructed,            \* how many times new GoogleGenAI(...) has run
    inFlight,               \* the pending promises, a bag of request records
    filesPicked,            \* how many File objects the file picker has delivered
    issued,                 \* how many requests the handlers have issued
    pcmBytes,               \* encoder input: the PCM byte sequence
    format,                 \* encoder input: {sampleRate, channels, bitsPerSample}
    wavBlob                 \* encoder output (<<>> before the encoder has run)

appVars == <<audioFile, originalTranscription, translations, selectedLanguage,
             activeTab, appState, error>>
serviceVars == <<ai, constructed>>
wavVars == <<pcmBytes, format, wavBlob>>
vars == <<audioFile, originalTranscription, translations, selectedLanguage,
          activeTab, appState, error, ai, apiKey, constructed, inFlight,
          filesPicked, issued, pcmBytes, format, wavBlob>>

(***************************************************************************)
(* Bounds of the model.                                                    *)
(***************************************************************************)
\* File objects the user picks in one run.
MaxFiles == 2
\* Requests the handlers issue in one run.
MaxRequests == 6
\* Length of the PCM inputs given to the encoder on its own.
MaxPcmLen == 2

(***************************************************************************)
(* Values.                                                                 *)
(***************************************************************************)
\* The null of error: string | null.
Null == "null"
\* The value of ai before the first client is constructed.
Undefined == 0
\* The empty string of originalTranscription.
EmptyText == 0

\* ./constants: the languages offered, as {code, name} records.
LANGUAGES ==
    << [code |-> "es", name |-> "Spanish"],
       [code |-> "fr", name |-> "French"] >>

LanguageCodes == { LANGUAGES[i].code : i \in DOMAIN LANGUAGES }

\* LANGUAGES.find(l => l.code === code)?.name || fallback
LanguageName(code, fallback) ==
    IF \E i \in DOMAIN LANGUAGES : LANGUAGES[i].code = code
    THEN LANGUAGES[CHOOSE i \in DOMAIN LANGUAGES : LANGUAGES[i].code = code].name
    ELSE fallback

\* audioUrl: string | null. A URL made by URL.createObjectURL names the blob
\* it was made for; text is the text that was spoken.
NullUrl == [isNull |-> TRUE, text |-> [src |-> EmptyText, lang |-> ""], blob |-> <<>>]
ObjectUrl(text, blob) == [isNull |-> FALSE, text |-> text, blob |-> blob]

\* The format handleGenerateVoiceover passes to createWavBlob.
AppFormat == [sampleRate |-> 24000, channels |-> 1, bitsPerSample |-> 16]

(***************************************************************************)
(* utils/audio: the WAV container encoder.                                 *)
(***************************************************************************)
\* DataView.setUint16 / setUint32 with littleEndian = true: the k low bytes
\* of n, least significant first (n is reduced modulo 256^k).
RECURSIVE LittleEndian(_, _)
LittleEndian(n, k) ==
    IF k = 0 THEN <<>> ELSE <<n % 256>> \o LittleEndian(n \div 256, k - 1)

\* The four-character chunk identifiers, as ASCII bytes.
RIFF == <<82, 73, 70, 70>>
WAVE == <<87, 65, 86, 69>>
FMT  == <<102, 109, 116, 32>>
DATA == <<100, 97, 116, 97>>

\* Size of the RIFF/WAVE/fmt /data header.
HeaderSize == 44

\* sampleRate * channels * bitsPerSample/8, as setUint32 stores it.
ByteRate(f) == (f.sampleRate * f.channels * f.bitsPerSample) \div 8
\* channels * bitsPerSample/8, as setUint16 stores it.
BlockAlign(f) == (f.channels * f.bitsPerSample) \div 8

\* A faulty variant: the payload is written one byte early (offset 43).
createWavBlob_ShortHeader(pcm, f) ==
    RIFF \o LittleEndian(36 + Len(pcm), 4) \o WAVE
    \o FMT \o LittleEndian(16, 4) \o LittleEndian(1, 2)
    \o LittleEndian(f.channels, 2) \o LittleEndian(f.sampleRate, 4)
    \o LittleEndian(ByteRate(f), 4) \o LittleEndian(BlockAlign(f), 2)
    \o LittleEndian(f.bitsPerSample, 2)
    \o DATA \o LittleEndian(Len(pcm), 3) \o pcm

\* A faulty variant: ChunkSize is written as the whole file size (44 + dataSize).
createWavBlob_ChunkSizeIsFileSize(pcm, f) ==
    RIFF \o LittleEndian(HeaderSize + Len(pcm), 4) \o WAVE
    \o FMT \o LittleEndian(16, 4) \o LittleEndian(1, 2)
    \o LittleEndian(f.channels, 2) \o LittleEndian(f.sampleRate, 4)
    \o LittleEndian(ByteRate(f), 4) \o LittleEndian(BlockAlign(f), 2)
    \o LittleEndian(f.bitsPerSample, 2)
    \o DATA \o LittleEndian(Len(pcm), 4) \o pcm

\* createWavBlob(pcmData, {sampleRate, channels, bitsPerSample}): the 44-byte
\* header followed by the payload.
createWavBlob(pcm, f) ==
    RIFF \o LittleEndian(36 + Len(pcm), 4) \o WAVE
    \o FMT \o LittleEndian(16, 4) \o LittleEndian(1, 2)
    \o LittleEndian(f.channels, 2) \o LittleEndian(f.sampleRate, 4)
    \o LittleEndian(ByteRate(f), 4) \o LittleEndian(BlockAlign(f), 2)
    \o LittleEndian(f.bitsPerSample, 2)
    \o DATA \o LittleEndian(Len(pcm), 4) \o pcm

\* Reading a little-endian field of k bytes at byte offset off (0-based).
RECURSIVE ReadLittleEndian(_, _, _)
ReadLittleEndian(bytes, off, k) ==
    IF k = 0 THEN 0
    ELSE bytes[off + 1] + 256 * ReadLittleEndian(bytes, off + 1, k - 1)

(***************************************************************************)
(* services/geminiService.ts                                               *)
(***************************************************************************)
\* A faulty variant: the client is not cached (a new one is constructed on every call).
getAiClient_NoCache ==
    [ throws      |-> ~apiKey,
      ai          |-> IF apiKey THEN constructed + 1 ELSE ai,
      constructed |-> IF apiKey THEN constructed + 1 ELSE constructed ]

\* A faulty variant: the missing key is not checked (the client is built without one).
getAiClient_NoKeyCheck ==
    [ throws      |-> FALSE,
      ai          |-> IF ai # Undefined THEN ai ELSE constructed + 1,
      constructed |-> IF ai # Undefined THEN constructed ELSE constructed + 1 ]

\* getAiClient(): whether it throws, and the values of ai and of the number
\* of clients constructed after the call. The client returned is the new ai.
getAiClient ==
    [ throws      |-> ai = Undefined /\ ~apiKey,
      ai          |-> IF ai # Undefined THEN ai
                      ELSE IF apiKey THEN constructed + 1 ELSE Undefined,
      constructed |-> IF ai = Undefined /\ apiKey
                      THEN constructed + 1 ELSE constructed ]

\* The message of the Error getAiClient throws.
ApiKeyNotFoundMessage ==
    "API Key not found. Please ensure it is configured in your Vercel deployment's environment variables."

\* A pending promise. kind/stage say which await it is; the other fields are
\* what the handler's closure holds for the code after the await.
Request(kind, stage, file, src, langCode, index, rowText, rowLang, client) ==
    [ kind |-> kind, stage |-> stage, file |-> file, src |-> src,
      langCode |-> langCode, index |-> index, rowText |-> rowText,
      rowLang |-> rowLang, client |-> client ]

NoText == [src |-> EmptyText, lang |-> ""]

Pending == BagToSet(inFlight)
Issue(r) == inFlight (+) SetToBag({r})
Settle(r) == inFlight (-) SetToBag({r})
\* Requests that have reached aiClient.models.generateContent.
NetworkRequests == { r \in Pending : r.stage = "network" }

(***************************************************************************)
(* App: what the rendered controls permit.                                 *)
(***************************************************************************)
\* existingLanguages={translations.map(t => t.langCode)}
ExistingLanguages == { translations[i].langCode : i \in DOMAIN translations }

\* <button disabled={!audioFile || appState === 'transcribing'}>
TranscribeButtonEnabled == audioFile # 0 /\ appState # "transcribing"

\* A faulty variant: the controls and the result tabs stay rendered in the
\* 'error' state as well.
ControlsRendered_AlsoInError ==
    appState \in {"transcribed", "translating", "error"}
    /\ originalTranscription # EmptyText

\* {(appState === 'transcribed' || appState === 'translating') && originalTranscription && ...}
ControlsRendered ==
    appState \in {"transcribed", "translating"} /\ originalTranscription # EmptyText

\* <button disabled={isLoading || existingLanguages.includes(selectedLanguage)}>
TranslateButtonEnabled ==
    ControlsRendered /\ appState # "translating"
    /\ selectedLanguage \notin ExistingLanguages

\* The panel of row j is shown (activeTab === t.langCode) with its button:
\* {!audioUrl && <button disabled={isGeneratingAudio}>}
VoiceoverButtonEnabled(j) ==
    /\ ControlsRendered
    /\ j \in DOMAIN translations
    /\ activeTab = translations[j].langCode
    /\ translations[j].audioUrl.isNull
    /\ ~translations[j].isGeneratingAudio

\* translations.findIndex(t => t.langCode === langCode), 1-based; 0 is -1.
FindIndex(rows, langCode) ==
    IF \E i \in DOMAIN rows : rows[i].langCode = langCode
    THEN CHOOSE i \in DOMAIN rows :
            /\ rows[i].langCode = langCode
            /\ \A k \in DOMAIN rows : rows[k].langCode = langCode => i <= k
    ELSE 0

\* prev.map((t, i) => i === translationIndex ? { ...t, isGeneratingAudio: b } : t)
SetGenerating(prev, translationIndex, b) ==
    [ i \in DOMAIN prev |->
        IF i = translationIndex
        THEN [prev[i] EXCEPT !.isGeneratingAudio = b] ELSE prev[i] ]

\* prev.map((t, i) => i === translationIndex ? { ...t, audioUrl, isGeneratingAudio: false } : t)
SetAudioUrl(prev, translationIndex, audioUrl) ==
    [ i \in DOMAIN prev |->
        IF i = translationIndex
        THEN [prev[i] EXCEPT !.audioUrl = audioUrl, !.isGeneratingAudio = FALSE]
        ELSE prev[i] ]

TranscribeErrorMessage == "Failed to transcribe audio. Please try again."
TranslateErrorMessage == "Failed to translate text. Please try again."
\* `Failed to generate voiceover for ${translations[translationIndex].lang}.`
VoiceoverErrorMessage(lang) ==
    CASE lang = "Spanish" -> "Failed to generate voiceover for Spanish."
      [] lang = "French"  -> "Failed to generate voiceover for French."
      [] OTHER            -> "Failed to generate voiceover for Unknown."
VoiceoverErrorMessages ==
    { VoiceoverErrorMessage(LANGUAGES[i].name) : i \in DOMAIN LANGUAGES }

\* The decoded audio the speech service answers with (decodeBase64 of a
\* non-empty inlineData.data).
SpeechPayloads == { <<0, 1>>, <<255, 127, 0, 128>> }

(***************************************************************************)
(* App: the handlers.                                                      *)
(***************************************************************************)
\* A faulty variant: the handler does not call setActiveTab('en').
HandleFileChange_KeepsActiveTab ==
    /\ filesPicked < MaxFiles
    /\ filesPicked' = filesPicked + 1
    /\ audioFile' = filesPicked + 1
    /\ originalTranscription' = EmptyText
    /\ translations' = <<>>
    /\ appState' = "initial"
    /\ error' = Null
    /\ UNCHANGED <<selectedLanguage, activeTab, ai, apiKey, constructed, inFlight,
                   issued, wavVars>>

\* A faulty variant: the handler also puts selectedLanguage back to its
\* initial value.
HandleFileChange_ResetsLanguage ==
    /\ filesPicked < MaxFiles
    /\ filesPicked' = filesPicked + 1
    /\ audioFile' = filesPicked + 1
    /\ originalTranscription' = EmptyText
    /\ translations' = <<>>
    /\ activeTab' = "en"
    /\ appState' = "initial"
    /\ error' = Null
    /\ selectedLanguage' = LANGUAGES[1].code
    /\ UNCHANGED <<ai, apiKey, constructed, inFlight, issued, wavVars>>

\* handleFileChange when event.target.files?.[0] is undefined (the picker was
\* cancelled): the if (file) body is skipped.
HandleFileChangeNoFile ==
    UNCHANGED vars

\* handleFileChange with a file: a new File object arrives from the picker.
HandleFileChange ==
    /\ filesPicked < MaxFiles
    /\ filesPicked' = filesPicked + 1
    /\ audioFile' = filesPicked + 1
    /\ originalTranscription' = EmptyText
    /\ translations' = <<>>
    /\ activeTab' = "en"
    /\ appState' = "initial"
    /\ error' = Null
    /\ UNCHANGED <<selectedLanguage, ai, apiKey, constructed, inFlight, issued,
                   wavVars>>

\* handleTranscribe called with no file: if (!audioFile) return.
HandleTranscribeNoFile ==
    /\ audioFile = 0
    /\ UNCHANGED vars

\* handleTranscribe up to its first await (fileToBase64).
HandleTranscribe ==
    /\ TranscribeButtonEnabled
    /\ audioFile # 0
    /\ issued < MaxRequests
    /\ appState' = "transcribing"
    /\ error' = Null
    /\ inFlight' = Issue(Request("transcribe", "reading", audioFile, EmptyText,
                                 "", 0, NoText, "", Undefined))
    /\ issued' = issued + 1
    /\ UNCHANGED <<audioFile, originalTranscription, translations,
                   selectedLanguage, activeTab, ai, apiKey, constructed,
                   filesPicked, wavVars>>

\* A faulty variant: the catch block also discards the transcription.
TranscribeCatch_ClearsTranscription ==
    /\ error' = TranscribeErrorMessage
    /\ appState' = "error"
    /\ originalTranscription' = EmptyText
    /\ UNCHANGED <<audioFile, translations, selectedLanguage, activeTab>>

\* A faulty variant: the catch block does not call setAppState('error').
TranscribeCatch_KeepsAppState ==
    /\ error' = TranscribeErrorMessage
    /\ UNCHANGED <<audioFile, originalTranscription, translations,
                   selectedLanguage, activeTab, appState>>

\* handleTranscribe's catch block.
TranscribeCatch ==
    /\ error' = TranscribeErrorMessage
    /\ appState' = "error"
    /\ UNCHANGED <<audioFile, originalTranscription, translations,
                   selectedLanguage, activeTab>>

\* fileToBase64 resolves and handleTranscribe calls transcribeAudio, which
\* calls getAiClient and then generateContent.
FileToBase64Resolved(r) ==
    /\ r \in Pending /\ r.kind = "transcribe" /\ r.stage = "reading"
    /\ LET c == getAiClient IN
        /\ ai' = c.ai
        /\ constructed' = c.constructed
        /\ IF c.throws
           THEN /\ inFlight' = Settle(r)
                /\ TranscribeCatch
           ELSE /\ inFlight' = Settle(r) (+)
                       SetToBag({[r EXCEPT !.stage = "network", !.client = c.ai]})
                /\ UNCHANGED appVars
    /\ UNCHANGED <<apiKey, filesPicked, issued, wavVars>>

\* fileToBase64 rejects (the FileReader fails).
FileToBase64Rejected(r) ==
    /\ r \in Pending /\ r.kind = "transcribe" /\ r.stage = "reading"
    /\ inFlight' = Settle(r)
    /\ TranscribeCatch
    /\ UNCHANGED <<ai, apiKey, constructed, filesPicked, issued, wavVars>>

\* A faulty variant: the result is dropped when another file has been selected
\* since the request was issued.
TranscribeResolved_IfCurrent(r, text) ==
    /\ r \in Pending /\ r.kind = "transcribe" /\ r.stage = "network"
    /\ text \in {EmptyText, r.file}
    /\ inFlight' = Settle(r)
    /\ IF r.file = audioFile
       THEN /\ originalTranscription' = text
            /\ appState' = "transcribed"
            /\ activeTab' = "en"
       ELSE UNCHANGED <<originalTranscription, appState, activeTab>>
    /\ UNCHANGED <<audioFile, translations, selectedLanguage, error, ai, apiKey,
                   constructed, filesPicked, issued, wavVars>>

\* transcribeAudio resolves with response.text: the transcript of the file
\* the request was issued for, or an empty text.
TranscribeResolved(r, text) ==
    /\ r \in Pending /\ r.kind = "transcribe" /\ r.stage = "network"
    /\ text \in {EmptyText, r.file}
    /\ inFlight' = Settle(r)
    /\ originalTranscription' = text
    /\ appState' = "transcribed"
    /\ activeTab' = "en"
    /\ UNCHANGED <<audioFile, translations, selectedLanguage, error, ai, apiKey,
                   constructed, filesPicked, issued, wavVars>>

\* transcribeAudio rejects.
TranscribeRejected(r) ==
    /\ r \in Pending /\ r.kind = "transcribe" /\ r.stage = "network"
    /\ inFlight' = Settle(r)
    /\ TranscribeCatch
    /\ UNCHANGED <<ai, apiKey, constructed, filesPicked, issued, wavVars>>

\* <select onChange={(e) => onLanguageChange(e.target.value)}>; the options of
\* the languages already translated are disabled.
LanguageChange(code) ==
    /\ ControlsRendered
    /\ code \in LanguageCodes
    /\ code \notin ExistingLanguages
    /\ code # selectedLanguage
    /\ selectedLanguage' = code
    /\ UNCHANGED <<audioFile, originalTranscription, translations, activeTab,
                   appState, error, ai, apiKey, constructed, inFlight,
                   filesPicked, issued, wavVars>>

\* A faulty variant: the catch block does not call setAppState('error').
TranslateCatch_KeepsAppState ==
    /\ error' = TranslateErrorMessage
    /\ UNCHANGED <<audioFile, originalTranscription, translations,
                   selectedLanguage, activeTab, appState>>

\* handleTranslate's catch block.
TranslateCatch ==
    /\ error' = TranslateErrorMessage
    /\ appState' = "error"
    /\ UNCHANGED <<audioFile, originalTranscription, translations,
                   selectedLanguage, activeTab>>

\* handleTranslate called with an empty transcription or an already
\* translated language: the first line returns.
HandleTranslateReturn ==
    /\ \/ originalTranscription = EmptyText
       \/ \E i \in DOMAIN translations :
              translations[i].langCode = selectedLanguage
    /\ UNCHANGED vars

\* handleTranslate up to its await: translateText calls getAiClient and
\* generateContent at once; when getAiClient throws, the catch block runs
\* before any other event.
HandleTranslate ==
    /\ TranslateButtonEnabled
    /\ ~(originalTranscription = EmptyText
         \/ \E i \in DOMAIN translations :
                translations[i].langCode = selectedLanguage)
    /\ issued < MaxRequests
    /\ LET c == getAiClient IN
        /\ ai' = c.ai
        /\ constructed' = c.constructed
        /\ IF c.throws
           THEN /\ TranslateCatch
                /\ UNCHANGED <<inFlight, issued>>
           ELSE /\ appState' = "translating"
                /\ error' = Null
                /\ inFlight' = Issue(Request("translate", "network", 0,
                                     originalTranscription, selectedLanguage, 0,
                                     NoText, "", c.ai))
                /\ issued' = issued + 1
                /\ UNCHANGED <<audioFile, originalTranscription, translations,
                               selectedLanguage, activeTab>>
    /\ UNCHANGED <<apiKey, filesPicked, wavVars>>

\* A faulty variant: the new row takes the language selected when the result
\* arrives instead of the one captured by the click.
TranslateResolved_LiveLanguage(r) ==
    /\ r \in Pending /\ r.kind = "translate"
    /\ inFlight' = Settle(r)
    /\ translations' = Append(translations,
          [ lang |-> LanguageName(selectedLanguage, "Unknown"),
            langCode |-> selectedLanguage,
            text |-> [src |-> r.src, lang |-> LanguageName(r.langCode, "this language")],
            audioUrl |-> NullUrl,
            isGeneratingAudio |-> FALSE ])
    /\ activeTab' = selectedLanguage
    /\ appState' = "transcribed"
    /\ UNCHANGED <<audioFile, originalTranscription, selectedLanguage, error,
                   ai, apiKey, constructed, filesPicked, issued, wavVars>>

\* translateText resolves: the text of the request, in the language that was
\* selected when the request was issued.
TranslateResolved(r) ==
    /\ r \in Pending /\ r.kind = "translate"
    /\ inFlight' = Settle(r)
    /\ translations' = Append(translations,
          [ lang |-> LanguageName(r.langCode, "Unknown"),
            langCode |-> r.langCode,
            text |-> [src |-> r.src, lang |-> LanguageName(r.langCode, "this language")],
            audioUrl |-> NullUrl,
            isGeneratingAudio |-> FALSE ])
    /\ activeTab' = r.langCode
    /\ appState' = "transcribed"
    /\ UNCHANGED <<audioFile, originalTranscription, selectedLanguage, error,
                   ai, apiKey, constructed, filesPicked, issued, wavVars>>

\* translateText rejects.
TranslateRejected(r) ==
    /\ r \in Pending /\ r.kind = "translate"
    /\ inFlight' = Settle(r)
    /\ TranslateCatch
    /\ UNCHANGED <<ai, apiKey, constructed, filesPicked, issued, wavVars>>

\* onTabClick={setActiveTab}: the tabs are 'en' and one per row.
TabClick(tab) ==
    /\ ControlsRendered
    /\ tab \in {"en"} \cup ExistingLanguages
    /\ activeTab' = tab
    /\ UNCHANGED <<audioFile, originalTranscription, translations,
                   selectedLanguage, appState, error, ai, apiKey, constructed,
                   inFlight, filesPicked, issued, wavVars>>

\* handleGenerateVoiceover(translations[j].langCode) up to its await:
\* generateSpeech calls getAiClient and generateContent at once; when
\* getAiClient throws, the catch block runs before any other event.
HandleGenerateVoiceover(j) ==
    /\ VoiceoverButtonEnabled(j)
    /\ issued < MaxRequests
    /\ LET translationIndex == FindIndex(translations, translations[j].langCode)
           c == getAiClient
       IN
        /\ translationIndex # 0
        /\ ai' = c.ai
        /\ constructed' = c.constructed
        /\ IF c.throws
           THEN /\ error' = VoiceoverErrorMessage(translations[translationIndex].lang)
                /\ translations' = SetGenerating(
                       SetGenerating(translations, translationIndex, TRUE),
                       translationIndex, FALSE)
                /\ UNCHANGED <<inFlight, issued>>
           ELSE /\ error' = Null
                /\ translations' = SetGenerating(translations, translationIndex, TRUE)
                /\ inFlight' = Issue(Request("voiceover", "network", 0, EmptyText,
                                     "", translationIndex,
                                     translations[translationIndex].text,
                                     translations[translationIndex].lang, c.ai))
                /\ issued' = issued + 1
    /\ UNCHANGED <<audioFile, originalTranscription, selectedLanguage, activeTab,
                   appState, apiKey, filesPicked, wavVars>>

\* generateSpeech resolves with audio, which is decoded, wrapped as a WAV blob
\* and given an object URL.
VoiceoverResolved(r, pcmData) ==
    /\ r \in Pending /\ r.kind = "voiceover"
    /\ pcmData \in SpeechPayloads
    /\ inFlight' = Settle(r)
    /\ translations' = SetAudioUrl(translations, r.index,
                          ObjectUrl(r.rowText, createWavBlob(pcmData, AppFormat)))
    /\ UNCHANGED <<audioFile, originalTranscription, selectedLanguage, activeTab,
                   appState, error, ai, apiKey, constructed, filesPicked, issued, wavVars>>

\* generateSpeech rejects (the request fails, or the answer holds no audio), or
\* decodeBase64 throws: handleGenerateVoiceover's catch block.
VoiceoverRejected(r) ==
    /\ r \in Pending /\ r.kind = "voiceover"
    /\ inFlight' = Settle(r)
    /\ error' = VoiceoverErrorMessage(r.rowLang)
    /\ translations' = SetGenerating(translations, r.index, FALSE)
    /\ UNCHANGED <<audioFile, originalTranscription, selectedLanguage, activeTab,
                   appState, ai, apiKey, constructed, filesPicked, issued, wavVars>>

(***************************************************************************)
(* The application.                                                        *)
(***************************************************************************)
Init ==
    /\ audioFile = 0
    /\ originalTranscription = EmptyText
    /\ translations = <<>>
    /\ selectedLanguage = LANGUAGES[1].code
    /\ activeTab = "en"
    /\ appState = "initial"
    /\ error = Null
    /\ ai = Undefined
    /\ apiKey \in BOOLEAN
    /\ constructed = 0
    /\ inFlight = EmptyBag
    /\ filesPicked = 0
    /\ issued = 0
    /\ pcmBytes = <<>>
    /\ format = AppFormat
    /\ wavBlob = <<>>

Next ==
    \/ HandleFileChange
    \/ HandleFileChangeNoFile
    \/ HandleTranscribeNoFile
    \/ HandleTranscribe
    \/ \E r \in Pending : FileToBase64Resolved(r)
    \/ \E r \in Pending : FileToBase64Rejected(r)
    \/ \E r \in Pending : \E text \in 0..MaxFiles : TranscribeResolved(r, text)
    \/ \E r \in Pending : TranscribeRejected(r)
    \/ \E code \in LanguageCodes : LanguageChange(code)
    \/ HandleTranslateReturn
    \/ HandleTranslate
    \/ \E r \in Pending : TranslateResolved(r)
    \/ \E r \in Pending : TranslateRejected(r)
    \/ \E tab \in {"en"} \cup LanguageCodes : TabClick(tab)
    \/ \E j \in DOMAIN translations : HandleGenerateVoiceover(j)
    \/ \E r \in Pending : \E pcmData \in SpeechPayloads : VoiceoverResolved(r, pcmData)
    \/ \E r \in Pending : VoiceoverRejected(r)

Spec == Init /\ [][Next]_vars

\* A step that settles a pending promise of handleTranscribe.
SettleTranscription ==
    \E r \in Pending :
        \/ FileToBase64Resolved(r)
        \/ FileToBase64Rejected(r)
        \/ \E text \in 0..MaxFiles : TranscribeResolved(r, text)
        \/ TranscribeRejected(r)

\* A step that settles a pending promise of handleTranslate.
SettleTranslation ==
    \E r \in Pending : TranslateResolved(r) \/ TranslateRejected(r)

\* The application when every pending transcription and translation request
\* is settled in the end (the file reader and the service answer or fail, they
\* do not hang).
FairSpec ==
    /\ Spec
    /\ WF_vars(SettleTranscription)
    /\ WF_vars(SettleTranslation)

(***************************************************************************)
(* The encoder on its own: every input of a bounded set is encoded once.   *)
(***************************************************************************)
SampleBytes == {0, 1, 255}
PcmInputs == UNION { [1..n -> SampleBytes] : n \in 0..MaxPcmLen }
Formats ==
    [ sampleRate : {8000, 24000, 44100}, channels : {1, 2},
      bitsPerSample : {8, 16} ]

WavInit ==
    /\ audioFile = 0
    /\ originalTranscription = EmptyText
    /\ translations = <<>>
    /\ selectedLanguage = LANGUAGES[1].code
    /\ activeTab = "en"
    /\ appState = "initial"
    /\ error = Null
    /\ ai = Undefined
    /\ apiKey = TRUE
    /\ constructed = 0
    /\ inFlight = EmptyBag
    /\ filesPicked = 0
    /\ issued = 0
    /\ pcmBytes \in PcmInputs
    /\ format \in Formats
    /\ wavBlob = <<>>

EncodeWav ==
    /\ wavBlob = <<>>
    /\ wavBlob' = createWavBlob(pcmBytes, format)
    /\ UNCHANGED <<appVars, ai, apiKey, constructed, inFlight, filesPicked,
                   issued, pcmBytes, format>>

WavNext == EncodeWav

WavSpec == WavInit /\ [][WavNext]_vars

(***************************************************************************)
(* Steps and counts the properties speak of.                               *)
(***************************************************************************)
\* How many pending requests satisfy P.
CountInFlight(P(_)) ==
    BagCardinality([ r \in { x \in Pending : P(x) } |-> inFlight[r] ])

IsTranscribe(r) == r.kind = "transcribe"
IsTranslate(r) == r.kind = "translate"

\* The step in which a transcription fails: the file cannot be read,
\* getAiClient throws, or the request is rejected.
TranscribeFailure ==
    \E r \in Pending :
        \/ FileToBase64Rejected(r)
        \/ getAiClient.throws /\ FileToBase64Resolved(r)
        \/ TranscribeRejected(r)

\* The step in which a translation fails.
TranslateFailure ==
    \/ getAiClient.throws /\ HandleTranslate
    \/ \E r \in Pending : TranslateRejected(r)

\* The step in which a voiceover fails.
VoiceoverFailure ==
    \/ \E j \in DOMAIN translations : getAiClient.throws /\ HandleGenerateVoiceover(j)
    \/ \E r \in Pending : VoiceoverRejected(r)

\* What a row holds as a result: everything but its isGeneratingAudio flag.
Results(rows) ==
    [ i \in DOMAIN rows |->
        [ lang |-> rows[i].lang, langCode |-> rows[i].langCode,
          text |-> rows[i].text, audioUrl |-> rows[i].audioUrl ] ]

\* Request r is settled by the step: one copy of it leaves inFlight.
Leaves(r) == CopiesIn(r, inFlight') < CopiesIn(r, inFlight)

(***************************************************************************)
(* Properties.                                                             *)
(***************************************************************************)

\* C1: at any time at most one transcription request, at most one
\* translation request and, for each translation row, at most one voiceover
\* request is in flight.
C1_AtMostOneRequestPerAction ==
    /\ CountInFlight(IsTranscribe) <= 1
    /\ CountInFlight(IsTranslate) <= 1
    /\ \A r \in Pending :
          r.kind = "voiceover" =>
            LET SameRow(x) == /\ x.kind = "voiceover"
                              /\ x.index = r.index
                              /\ x.rowText = r.rowText
            IN CountInFlight(SameRow) <= 1

\* C2: with no API key configured no request ever reaches generateContent:
\* every call stops in getAiClient, and no client is ever constructed or cached.
C2_NoKeyNoNetworkRequest ==
    ~apiKey =>
        /\ NetworkRequests = {}
        /\ ai = Undefined
        /\ constructed = 0

\* C2 witness: with no key, a transcription has been attempted and has failed.
C2_Witness ==
    /\ ~apiKey
    /\ appState = "error"
    /\ error = TranscribeErrorMessage
    /\ audioFile = MaxFiles
    /\ Pending = {}

\* C3: when getAiClient throws for a missing key in handleTranscribe, the
\* error shown to the user is the missing-API-key message.
C3_ConfigurationErrorShown ==
    [][ \A r \in Pending :
            (~apiKey /\ FileToBase64Resolved(r)) => error' = ApiKeyNotFoundMessage ]_vars

\* C4: a failed transcription, translation or voiceover leaves
\* originalTranscription and the lang, langCode, text and audioUrl of every
\* translation row as they were.
C4_FailureKeepsResults ==
    [][ (TranscribeFailure \/ TranslateFailure \/ VoiceoverFailure) =>
            /\ originalTranscription' = originalTranscription
            /\ Results(translations') = Results(translations) ]_vars

\* C4 witness: the application is in the error state and still holds a
\* transcription and a translation row with its voiceover.
C4_Witness ==
    /\ appState = "error"
    /\ error \in {TranscribeErrorMessage, TranslateErrorMessage}
    /\ originalTranscription # EmptyText
    /\ \E i \in DOMAIN translations : ~translations[i].audioUrl.isNull

\* C5 as stated: each of the three kinds of failure sets a non-empty error
\* message and moves appState to 'error'.
C5_EveryFailureMovesToErrorState ==
    [][ (TranscribeFailure \/ TranslateFailure \/ VoiceoverFailure) =>
            /\ error' # Null
            /\ appState' = "error" ]_vars

\* C5 amended: a failed transcription and a failed translation set their error
\* message and move appState to 'error'; a failed voiceover sets its error
\* message and leaves appState as it was.
C5_FailureSetsMessage ==
    [][ /\ TranscribeFailure =>
            error' = TranscribeErrorMessage /\ appState' = "error"
        /\ TranslateFailure =>
            error' = TranslateErrorMessage /\ appState' = "error"
        /\ VoiceoverFailure =>
            error' \in VoiceoverErrorMessages /\ appState' = appState ]_vars

\* C5 witness: a voiceover has failed and the application is not in the
\* error state.
C5_Witness ==
    /\ error \in VoiceoverErrorMessages
    /\ appState = "transcribed"
    /\ \E i \in DOMAIN translations : ~translations[i].isGeneratingAudio

\* C6: a failed voiceover request changes no translation row other than the
\* row it was issued for.
C6_FailureScopedToItsRow ==
    [][ \A r \in Pending :
            VoiceoverRejected(r) =>
                \A i \in DOMAIN translations :
                    (i # r.index \/ translations[i].text # r.rowText) =>
                        /\ i \in DOMAIN translations'
                        /\ translations'[i] = translations[i] ]_vars

\* C7: no step but its own settlement takes a request out of flight, and a
\* settlement is applied whatever file is selected by then: a transcription
\* request either fails into the error state or writes its result to
\* originalTranscription, a translation request either fails or appends its row.
C7_ResolutionAppliedUnconditionally ==
    [][ \A r \in Pending :
            Leaves(r) =>
                \/ /\ r.kind = "transcribe" /\ r.stage = "reading"
                   /\ \/ error' = TranscribeErrorMessage /\ appState' = "error"
                      \/ CopiesIn([r EXCEPT !.stage = "network", !.client = ai'],
                                  inFlight') > 0
                \/ /\ r.kind = "transcribe" /\ r.stage = "network"
                   /\ \/ error' = TranscribeErrorMessage /\ appState' = "error"
                      \/ /\ originalTranscription' \in {EmptyText, r.file}
                         /\ appState' = "transcribed"
                \/ /\ r.kind = "translate"
                   /\ \/ error' = TranslateErrorMessage /\ appState' = "error"
                      \/ /\ Len(translations') = Len(translations) + 1
                         /\ translations'[Len(translations')].text.src = r.src
                         /\ translations'[Len(translations')].langCode = r.langCode
                         /\ appState' = "transcribed"
                \/ r.kind = "voiceover" ]_vars

\* C7 witness: the second file is selected and the transcription on display
\* is the one of the first file; its request was issued before the selection.
C7_Witness ==
    /\ audioFile = 2
    /\ originalTranscription = 1
    /\ appState = "transcribed"

\* C8: with an API key the client is constructed once, on the first call, and
\* every request is sent with that one cached client.
C8_ClientConstructedOnce ==
    apiKey =>
        /\ constructed <= 1
        /\ (constructed = 1) = (ai # Undefined)
        /\ ai \in {Undefined, 1}
        /\ \A r \in NetworkRequests : r.client = ai /\ ai = 1
        /\ (originalTranscription # EmptyText \/ translations # <<>>) => constructed = 1

\* C8 witness: requests of two different service functions are in flight,
\* both sent with the one client.
C8_Witness ==
    /\ apiKey
    /\ constructed = 1
    /\ \E r1, r2 \in NetworkRequests :
          r1.kind = "voiceover" /\ r2.kind = "translate" /\ r1.client = r2.client

\* C9: the encoder's output is 44 + pcmBytes.length bytes long, the payload
\* follows verbatim from offset 44, and an empty input gives the 44-byte header.
C9_WavLength ==
    wavBlob # <<>> =>
        /\ Len(wavBlob) = 44 + Len(pcmBytes)
        /\ \A i \in 1..Len(pcmBytes) : wavBlob[44 + i] = pcmBytes[i]
        /\ (pcmBytes = <<>> => Len(wavBlob) = 44)

\* C9 witness: a non-empty payload has been encoded.
C9_Witness ==
    /\ wavBlob # <<>>
    /\ Len(pcmBytes) > 0
    /\ format.channels = 2

\* C10: ChunkSize at offset 4 is 36 + dataSize, ByteRate at offset 28 is
\* sampleRate * channels * bitsPerSample/8, which is 48000 for the format the
\* application passes.
C10_ChunkSizeAndByteRate ==
    wavBlob # <<>> =>
        /\ ReadLittleEndian(wavBlob, 40, 4) = Len(pcmBytes)
        /\ ReadLittleEndian(wavBlob, 4, 4) = 36 + ReadLittleEndian(wavBlob, 40, 4)
        /\ ReadLittleEndian(wavBlob, 28, 4) =
              format.sampleRate * format.channels * (format.bitsPerSample \div 8)
        /\ (format = AppFormat => ReadLittleEndian(wavBlob, 28, 4) = 48000)

\* C10 witness: a payload has been encoded in the application's format.
C10_Witness ==
    /\ wavBlob # <<>>
    /\ format = [sampleRate |-> 24000, channels |-> 1, bitsPerSample |-> 16]
    /\ pcmBytes # <<>>

\* C11: every translation row whose audioUrl is set holds the audio that was
\* synthesized from that row's own text.
C11_AudioBelongsToItsRow ==
    \A i \in DOMAIN translations :
        ~translations[i].audioUrl.isNull =>
            translations[i].audioUrl.text = translations[i].text

\* C12: a failed transcription, translation or voiceover re-issues no request,
\* and in the state the failure leaves, the control that triggers the same
\* action again is rendered and enabled.
C12_RetryControlEnabledAfterFailure ==
    [][ /\ (TranscribeFailure \/ TranslateFailure \/ VoiceoverFailure) =>
              \A r \in BagToSet(inFlight') :
                  CopiesIn(r, inFlight') <= CopiesIn(r, inFlight)
        /\ TranscribeFailure => TranscribeButtonEnabled'
        /\ TranslateFailure => TranslateButtonEnabled'
        /\ \A r \in Pending :
              VoiceoverRejected(r) => VoiceoverButtonEnabled(r.index)' ]_vars

\* C13: the translations list holds at most one row for each language code.
C13_OneRowPerLanguage ==
    \A i, k \in DOMAIN translations :
        translations[i].langCode = translations[k].langCode => i = k

\* C14: appState is 'transcribing' only while a transcription request is in
\* flight and 'translating' only while a translation request is in flight;
\* so, when every request is settled in the end, the application does not stay
\* in 'transcribing' or in 'translating' forever.
C14_BusyOnlyWhileInFlight ==
    /\ [](appState = "transcribing" => \E r \in Pending : r.kind = "transcribe")
    /\ [](appState = "translating" => \E r \in Pending : r.kind = "translate")
    /\ []<>(appState # "transcribing")
    /\ []<>(appState # "translating")

\* C14 witness: the application is translating while a transcription request
\* issued earlier is in flight as well.
C14_Witness ==
    /\ appState = "translating"
    /\ \E r \in Pending : r.kind = "transcribe"
    /\ \E r \in Pending : r.kind = "translate"

\* C15: activeTab is 'en' or the langCode of a row of the translations list.
C15_ActiveTabIsARenderedTab ==
    activeTab = "en" \/ activeTab \in ExistingLanguages

\* C15 witness: the second file is selected, and the translation of the first
\* file's transcript has landed afterwards and is the active tab.
C15_Witness ==
    /\ audioFile = 2
    /\ originalTranscription = EmptyText
    /\ Len(translations) = 1
    /\ translations[1].text.src = 1
    /\ activeTab = translations[1].langCode

\* C16: whenever appState is 'error' the error message is non-null.
C16_ErrorStateHasMessage ==
    appState = "error" => error # Null

\* C16 witness: the application is in the 'error' state with its message
\* shown while a voiceover request, whose click cleared the previous
\* message, is still in flight.
C16_Witness ==
    /\ appState = "error"
    /\ error = TranslateErrorMessage
    /\ \E r \in Pending : r.kind = "voiceover"

\* C17: between two file selections the translations list is append-only.  A
\* step that is not a file selection keeps every existing row's lang,
\* langCode and text at its position and adds at most one row; a row is added
\* only by the settlement of a translation request; and a translation that
\* succeeds adds exactly one row at the end, with the langCode selected when
\* translate was clicked, no audio and isGeneratingAudio false.
C17_TranslationsAppendOnly ==
    [][ audioFile' = audioFile =>
          /\ Len(translations') \in {Len(translations), Len(translations) + 1}
          /\ \A i \in DOMAIN translations :
                /\ translations'[i].lang = translations[i].lang
                /\ translations'[i].langCode = translations[i].langCode
                /\ translations'[i].text = translations[i].text
          /\ Len(translations') = Len(translations) + 1 =>
                \E r \in Pending : r.kind = "translate" /\ Leaves(r)
          /\ \A r \in Pending :
                (r.kind = "translate" /\ Leaves(r) /\ ~TranslateFailure) =>
                    /\ Len(translations') = Len(translations) + 1
                    /\ translations'[Len(translations')].langCode = r.langCode
                    /\ translations'[Len(translations')].audioUrl = NullUrl
                    /\ ~translations'[Len(translations')].isGeneratingAudio ]_vars

\* C17 witness: two translations have been appended to the list of one file,
\* and the first row has received its audio since.
C17_Witness ==
    /\ Len(translations) = 2
    /\ translations[1].langCode # translations[2].langCode
    /\ translations[1].text.src = audioFile
    /\ translations[2].text.src = audioFile
    /\ ~translations[1].audioUrl.isNull
    /\ translations[2].audioUrl.isNull

\* C18: a step that selects a file sets audioFile to the new file and resets
\* originalTranscription to empty, translations to the empty list, activeTab
\* to 'en', appState to 'initial' and error to null, and leaves
\* selectedLanguage and the pending requests as they were.  A file-picker
\* event with no file, a transcribe click with no file and a translate click
\* with an empty transcription or an already translated language change
\* nothing, and no step taken from a state without a file issues a
\* transcription request, nor one taken from a state with an empty
\* transcription or an already translated selected language a translation
\* request.
C18_FileSelectionResetsAndEarlyReturns ==
    [][ /\ audioFile' # audioFile =>
              /\ audioFile' = filesPicked'
              /\ audioFile' # 0
              /\ originalTranscription' = EmptyText
              /\ translations' = <<>>
              /\ activeTab' = "en"
              /\ appState' = "initial"
              /\ error' = Null
              /\ selectedLanguage' = selectedLanguage
              /\ inFlight' = inFlight
        /\ (HandleFileChangeNoFile \/ HandleTranscribeNoFile \/ HandleTranslateReturn) =>
              UNCHANGED vars
        /\ audioFile = 0 =>
              \A r \in BagToSet(inFlight') :
                  r.kind = "transcribe" =>
                      CopiesIn(r, inFlight') <= CopiesIn(r, inFlight)
        /\ (originalTranscription = EmptyText \/ selectedLanguage \in ExistingLanguages) =>
              \A r \in BagToSet(inFlight') :
                  r.kind = "translate" =>
                      CopiesIn(r, inFlight') <= CopiesIn(r, inFlight) ]_vars

\* C18 witness: the second file has just been selected, after the language
\* selection was changed and while a request of the first file is pending;
\* everything but selectedLanguage is back at its initial value.
C18_Witness ==
    /\ audioFile = 2
    /\ selectedLanguage # LANGUAGES[1].code
    /\ originalTranscription = EmptyText
    /\ translations = <<>>
    /\ activeTab = "en"
    /\ appState = "initial"
    /\ error = Null
    /\ Pending # {}

====
